---- MODULE Spec2Model ----
(***************************************************************************)
(* Model of src/src/main.rs: the bearer-token extractor, the two protected *)
(* routes /transactions and /summary, the Mutex-guarded AppCache they      *)
(* share, and get_transactions with its buffer_unordered(10) fan-out.      *)
(*                                                                         *)
(* Every request is one task.  A task's steps are the stretches of code    *)
(* between the points where it takes the Mutex, releases it, or awaits a   *)
(* response of the data API.  The Mutex is a variable of its own, so the   *)
(* exclusion it gives is checked and not assumed.                          *)
(*                                                                         *)
(* A header value is a sequence of symbols: "Bearer" stands for that       *)
(* substring, "sp" for a blank, "nonascii" for a byte that to_str()        *)
(* refuses and any other symbol for a run of token characters.  The data   *)
(* API is a store that does not change during a run: the `results` list of *)
(* an account is named by the token that asks and the account asked for,   *)
(* while the list of accounts it reports may differ from call to call.     *)
(*                                                                         *)
(* summarize_transactions is modelled on its own, one transaction of the   *)
(* nested loop per step, next to a clock that may advance between two      *)
(* readings of Utc::now().  Time is counted in seconds.  An f64 amount is  *)
(* a record [hi, lo] that stands for hi * 2^53 + lo, and the sum of two    *)
(* amounts is rounded to the nearest f64, ties to even.                    *)
(***************************************************************************)
EXTENDS Integers, Sequences, FiniteSets, TLC

\* ---------------------------------------------------------------- bounds
NumRequests == 2
MaxAccounts == 2
FanMax == 11
MaxTx == 2
MaxTicks == 1

\* buffer_unordered(10)
BufferLimit == 10

Requests == 1..NumRequests
Routes == {"transactions", "summary"}

VARIABLES
    pc,        \* where each request's task stands
    seen,      \* how many writes of its entry had completed at its lookup
    route,     \* the route a request was sent to
    hdr,       \* its Authorization header
    creds,     \* the Credentials the extractor built for it
    mutex,     \* holder of Mutex<AppCache>, 0 when free
    cache,     \* AppCache: credentials_id -> UserCache
    accounts,  \* accounts.results of the request's get_transactions
    taken,     \* how many accounts the stream has handed out
    inflight,  \* positions of the calls in the in-progress queue
    data,      \* the HashMap get_transactions is filling
    resp,      \* the response of the request
    calls,     \* the data-API calls the request has issued
    clock,     \* what Utc::now() returns, in seconds
    spc,       \* where a call of summarize_transactions stands
    ucache,    \* the UserCache it was given
    order,     \* the order in which cache.values() yields the accounts
    visited,   \* how many transactions the nested loop has visited
    res,       \* its HashMap category -> spending
    started,   \* the clock at the call, which its first reading returns
    passed     \* for each visited transaction, whether the `if` let it in

reqVars == <<pc, seen, route, hdr, creds, mutex, cache, accounts, taken, inflight, data, resp, calls>>
sumVars == <<clock, spc, ucache, order, visited, res, started, passed>>
vars == <<reqVars, sumVars>>

\* ---------------------------------------------------------------- AUTH
NoHeader == [present |-> FALSE, value |-> <<>>]
Hdr(v) == [present |-> TRUE, value |-> v]

\* the headers of the requests that share the cache
Headers ==
    { NoHeader,
      Hdr(<<"Bearer", "sp", "sp", "u1token">>),
      Hdr(<<"Bearer", "sp", "u2token">>),
      Hdr(<<"Bearer", "sp", "junk">>),
      Hdr(<<"u1token">>) }

NoCreds == [access_token |-> <<>>, credentials_id |-> "none"]

\* jwt decoding: the tokens that carry well-formed, unexpired claims
decode_token(t) ==
    IF t = <<"u1token">> THEN [ok |-> TRUE, sub |-> "u1", exp |-> 1]
    ELSE IF t = <<"u2token">> THEN [ok |-> TRUE, sub |-> "u2", exp |-> 1]
    ELSE [ok |-> FALSE, sub |-> "", exp |-> 0]

Credentials_new(token, c) == [access_token |-> token, credentials_id |-> c.sub]

\* str::split("Bearer"): the pieces between the occurrences of the pattern
RECURSIVE SplitFrom(_, _, _)
SplitFrom(s, i, cur) ==
    IF i > Len(s) THEN <<cur>>
    ELSE IF s[i] = "Bearer" THEN <<cur>> \o SplitFrom(s, i + 1, <<>>)
    ELSE SplitFrom(s, i + 1, Append(cur, s[i]))

Split(s) == SplitFrom(s, 1, <<>>)

\* str::trim
RECURSIVE TrimStart(_)
TrimStart(s) ==
    IF s # <<>> /\ Head(s) = "sp" THEN TrimStart(Tail(s)) ELSE s

RECURSIVE TrimEnd(_)
TrimEnd(s) ==
    IF s # <<>> /\ s[Len(s)] = "sp" THEN TrimEnd(SubSeq(s, 1, Len(s) - 1)) ELSE s

Trim(s) == TrimEnd(TrimStart(s))

AuthOk(c) == [tag |-> "ok", msg |-> "", creds |-> c]
AuthErr(m) == [tag |-> "err", msg |-> m, creds |-> NoCreds]
AuthPanic == [tag |-> "panic", msg |-> "", creds |-> NoCreds]

\* a variant that lets a request without usable credentials through
from_request_Open(h) ==
    IF ~h.present THEN AuthOk(Credentials_new(<<>>, [sub |-> "u1"]))
    ELSE IF \E i \in 1..Len(h.value) : h.value[i] = "nonascii" THEN AuthPanic
    ELSE LET _split == Split(h.value) IN
         IF Len(_split) < 2 THEN AuthPanic
         ELSE LET token == Trim(_split[2])
                  d == decode_token(token) IN
              IF d.ok THEN AuthOk(Credentials_new(token, d))
              ELSE AuthOk(Credentials_new(token, [sub |-> "u1"]))

from_request(h) ==
    IF ~h.present THEN AuthErr("blocked!")
    ELSE IF \E i \in 1..Len(h.value) : h.value[i] = "nonascii" THEN AuthPanic
    ELSE LET _split == Split(h.value) IN
         IF Len(_split) < 2 THEN AuthPanic
         ELSE LET token == Trim(_split[2])
                  d == decode_token(token) IN
              IF d.ok THEN AuthOk(Credentials_new(token, d))
              ELSE AuthErr("invalid token")

\* ---------------------------------------------------------------- DATA
EmptyMap == <<>>

\* HashMap::insert / the assignment through entry(): m with k bound to v
Put(m, k, v) == [x \in DOMAIN m \cup {k} |-> IF x = k THEN v ELSE m[x]]

None == [some |-> FALSE, val |-> EmptyMap]
Some(v) == [some |-> TRUE, val |-> v]

\* a lookup that never finds the entry
CacheGet_Blind(c, k) == None

\* a lookup that finds the entry but hands back an empty UserCache
CacheGet_Empty(c, k) == IF k \in DOMAIN c THEN Some(EmptyMap) ELSE None

\* a lookup that hands back whatever entry the map holds first
CacheGet_AnyKey(c, k) ==
    IF DOMAIN c # {} THEN Some(c[CHOOSE x \in DOMAIN c : TRUE]) ELSE None

\* c.get(&creds.credentials_id)
CacheGet(c, k) == IF k \in DOMAIN c THEN Some(c[k]) ELSE None

\* entry(k).or_default(): inserts an empty UserCache when k is vacant
EntryOrDefault(c, k) == IF k \in DOMAIN c THEN c ELSE Put(c, k, EmptyMap)

\* accounts.results: n accounts, account_id i at position i
AccountList(n) == [i \in 1..n |-> i]

\* data.results of GET /accounts/{acc}/transactions under bearer_auth(token)
Transactions(token, acc) == <<token, acc>>

Min(a, b) == IF a < b THEN a ELSE b

\* a fan-out that starts every queued call at once
Refill_Unbounded(n, tk, infl) ==
    [taken |-> n, inflight |-> infl \cup ((tk + 1)..n)]

\* a fan-out that fills the queue once and never hands a freed slot on
Refill_Once(n, tk, infl) ==
    IF tk = 0
    THEN [taken |-> Min(BufferLimit, n), inflight |-> 1..Min(BufferLimit, n)]
    ELSE [taken |-> tk, inflight |-> infl]

\* BufferUnordered::poll_next, first half: pull from the stream while the
\* in-progress queue holds fewer than BufferLimit futures
Refill(n, tk, infl) ==
    LET k == Min(BufferLimit - Cardinality(infl), n - tk) IN
    [taken |-> tk + k, inflight |-> infl \cup ((tk + 1)..(tk + k))]

\* The calls a request has sent: how many GET /accounts, and the positions
\* of the accounts it has sent GET /accounts/{id}/transactions for, in order
NoCalls == [list |-> 0, fetch |-> <<>>]

\* the calls for the positions tk + 1 .. tk2 join the log
Issued(c, tk, tk2) == [c EXCEPT !.fetch = @ \o [j \in 1..(tk2 - tk) |-> tk + j]]

\* A response: its status, what it says, and the UserCache its JSON body
\* is rendered from (as it is on /transactions, summarized on /summary)
Resp(st, k, src) == [status |-> st, kind |-> k, src |-> src]
NoResp == Resp(0, "none", EmptyMap)

\* ---------------------------------------------------------------- INIT
NoRequests ==
    /\ pc = [r \in Requests |-> "idle"]
    /\ seen = [r \in Requests |-> -1]
    /\ route = [r \in Requests |-> "none"]
    /\ hdr = [r \in Requests |-> NoHeader]
    /\ creds = [r \in Requests |-> NoCreds]
    /\ mutex = 0
    /\ cache = EmptyMap
    /\ accounts = [r \in Requests |-> <<>>]
    /\ taken = [r \in Requests |-> 0]
    /\ inflight = [r \in Requests |-> {}]
    /\ data = [r \in Requests |-> EmptyMap]
    /\ resp = [r \in Requests |-> NoResp]
    /\ calls = [r \in Requests |-> NoCalls]

\* no call of summarize_transactions is under way
NoSummary ==
    /\ clock = 0
    /\ spc = "idle"
    /\ ucache = EmptyMap
    /\ order = <<>>
    /\ visited = 0
    /\ res = EmptyMap
    /\ started = 0
    /\ passed = <<>>

Init == NoRequests /\ NoSummary

\* ---------------------------------------------------------------- ROUTES
\* the writes of the entry of k that have completed
Writes(k) ==
    Cardinality({q \in Requests : creds[q].credentials_id = k /\ resp[q].kind = "fetched"})

\* The handlers `transactions` and `transaction_summary` run the same
\* statements on the cache and differ only in how they render the response
\* body, so one set of actions serves both and route[r] tells them apart.
\*
\* A request arrives at a protected route; the extractor runs before the
\* handler body.  Requests are numbered in their order of arrival.
FromRequest(r, rt, h) ==
    /\ pc[r] = "idle"
    /\ \A q \in 1..(r - 1) : pc[q] # "idle"
    /\ LET a == from_request(h) IN
       /\ route' = [route EXCEPT ![r] = rt]
       /\ hdr' = [hdr EXCEPT ![r] = h]
       /\ creds' = [creds EXCEPT ![r] = a.creds]
       /\ pc' = [pc EXCEPT ![r] = CASE a.tag = "ok" -> "lookup"
                                    [] a.tag = "err" -> "rejected"
                                    [] OTHER -> "panicked"]
       /\ resp' = [resp EXCEPT ![r] = IF a.tag = "err" THEN Resp(401, a.msg, EmptyMap)
                                      ELSE NoResp]
    /\ UNCHANGED <<seen, mutex, cache, accounts, taken, inflight, data, calls, sumVars>>

\* a guard that admits a reader next to another reader
ReadLock_Shared(r) ==
    /\ pc[r] = "lookup"
    /\ mutex = 0 \/ (mutex # 0 /\ pc[mutex] = "rlocked")
    /\ mutex' = r
    /\ pc' = [pc EXCEPT ![r] = "rlocked"]
    /\ UNCHANGED <<seen, route, hdr, creds, cache, accounts, taken, inflight, data, resp, calls, sumVars>>

\* let c = cache.lock().unwrap();
ReadLock(r) ==
    /\ pc[r] = "lookup"
    /\ mutex = 0
    /\ mutex' = r
    /\ pc' = [pc EXCEPT ![r] = "rlocked"]
    /\ UNCHANGED <<seen, route, hdr, creds, cache, accounts, taken, inflight, data, resp, calls, sumVars>>

\* if let Some(data) = c.get(..) { return Ok(..json(data)) }  -- the guard
\* is dropped by the return
CacheHit(r) ==
    /\ pc[r] = "rlocked"
    /\ LET g == CacheGet(cache, creds[r].credentials_id) IN
       /\ g.some
       /\ resp' = [resp EXCEPT ![r] = Resp(200, "cached", g.val)]
    /\ seen' = [seen EXCEPT ![r] = Writes(creds[r].credentials_id)]
    /\ mutex' = 0
    /\ pc' = [pc EXCEPT ![r] = "done"]
    /\ UNCHANGED <<route, hdr, creds, cache, accounts, taken, inflight, data, calls, sumVars>>

\* a miss that keeps the guard alive across the fetch
CacheMiss_KeepGuard(r) ==
    /\ pc[r] = "rlocked"
    /\ ~CacheGet(cache, creds[r].credentials_id).some
    /\ seen' = [seen EXCEPT ![r] = Writes(creds[r].credentials_id)]
    /\ pc' = [pc EXCEPT ![r] = "accounts"]
    /\ calls' = [calls EXCEPT ![r].list = @ + 1]
    /\ UNCHANGED <<mutex, route, hdr, creds, cache, accounts, taken, inflight, data, resp, sumVars>>

\* the miss: drop(c); get_transactions sends GET /accounts and awaits it
CacheMiss(r) ==
    /\ pc[r] = "rlocked"
    /\ ~CacheGet(cache, creds[r].credentials_id).some
    /\ seen' = [seen EXCEPT ![r] = Writes(creds[r].credentials_id)]
    /\ mutex' = 0
    /\ pc' = [pc EXCEPT ![r] = "accounts"]
    /\ calls' = [calls EXCEPT ![r].list = @ + 1]
    /\ UNCHANGED <<route, hdr, creds, cache, accounts, taken, inflight, data, resp, sumVars>>

\* GET /accounts answers with n accounts; the first poll of the buffered
\* stream starts the first calls (none when n = 0: the loop ends at once)
ListAccountsOk(r, n) ==
    /\ pc[r] = "accounts"
    /\ LET f == Refill(n, 0, {}) IN
       /\ accounts' = [accounts EXCEPT ![r] = AccountList(n)]
       /\ taken' = [taken EXCEPT ![r] = f.taken]
       /\ calls' = [calls EXCEPT ![r] = Issued(@, 0, f.taken)]
       /\ inflight' = [inflight EXCEPT ![r] = f.inflight]
       /\ pc' = [pc EXCEPT ![r] = IF f.inflight = {} THEN "write" ELSE "fanout"]
    /\ UNCHANGED <<seen, route, hdr, creds, mutex, cache, data, resp, sumVars>>

\* a failure of GET /accounts that still leaves an (empty) entry behind
ListAccountsFail_Store(r) ==
    /\ pc[r] = "accounts"
    /\ mutex = 0
    /\ cache' = Put(cache, creds[r].credentials_id, EmptyMap)
    /\ pc' = [pc EXCEPT ![r] = "done"]
    /\ resp' = [resp EXCEPT ![r] = Resp(401, "Failed to GET accounts", EmptyMap)]
    /\ UNCHANGED <<seen, route, hdr, creds, mutex, accounts, taken, inflight, data, calls, sumVars>>

\* GET /accounts fails (send error, non-2xx status, bad JSON)
ListAccountsFail(r) ==
    /\ pc[r] = "accounts"
    /\ pc' = [pc EXCEPT ![r] = "done"]
    /\ resp' = [resp EXCEPT ![r] = Resp(401, "Failed to GET accounts", EmptyMap)]
    /\ UNCHANGED <<seen, route, hdr, creds, mutex, cache, accounts, taken, inflight, data, calls, sumVars>>

\* a fan-out that publishes each account to the cache as it arrives
FetchOk_Incremental(r, i) ==
    /\ pc[r] = "fanout"
    /\ i \in inflight[r]
    /\ mutex = 0
    /\ LET f == Refill(Len(accounts[r]), taken[r], inflight[r] \ {i})
           d == Put(data[r], accounts[r][i],
                    Transactions(creds[r].access_token, accounts[r][i])) IN
       /\ data' = [data EXCEPT ![r] = d]
       /\ cache' = Put(cache, creds[r].credentials_id, d)
       /\ taken' = [taken EXCEPT ![r] = f.taken]
       /\ calls' = [calls EXCEPT ![r] = Issued(@, taken[r], f.taken)]
       /\ inflight' = [inflight EXCEPT ![r] = f.inflight]
       /\ pc' = [pc EXCEPT ![r] = IF f.inflight = {} THEN "write" ELSE "fanout"]
    /\ UNCHANGED <<seen, route, hdr, creds, mutex, accounts, resp, sumVars>>

\* the call at position i completes and the loop takes its result:
\* data.insert(t.0, t.1), and the next poll refills the queue.  A call
\* stays in the in-progress queue until the loop has taken its result.
FetchOk(r, i) ==
    /\ pc[r] = "fanout"
    /\ i \in inflight[r]
    /\ LET f == Refill(Len(accounts[r]), taken[r], inflight[r] \ {i}) IN
       /\ data' = [data EXCEPT ![r] =
                      Put(data[r], accounts[r][i],
                          Transactions(creds[r].access_token, accounts[r][i]))]
       /\ taken' = [taken EXCEPT ![r] = f.taken]
       /\ calls' = [calls EXCEPT ![r] = Issued(@, taken[r], f.taken)]
       /\ inflight' = [inflight EXCEPT ![r] = f.inflight]
       /\ pc' = [pc EXCEPT ![r] = IF f.inflight = {} THEN "write" ELSE "fanout"]
    /\ UNCHANGED <<seen, route, hdr, creds, mutex, cache, accounts, resp, sumVars>>

\* a failure that still stores what was collected
FetchFail_Partial(r, i) ==
    /\ pc[r] = "fanout"
    /\ i \in inflight[r]
    /\ mutex = 0
    /\ cache' = Put(cache, creds[r].credentials_id, data[r])
    /\ inflight' = [inflight EXCEPT ![r] = {}]
    /\ data' = [data EXCEPT ![r] = EmptyMap]
    /\ pc' = [pc EXCEPT ![r] = "done"]
    /\ resp' = [resp EXCEPT ![r] = Resp(401, "Failed to GET transactions", EmptyMap)]
    /\ UNCHANGED <<seen, route, hdr, creds, mutex, accounts, taken, calls, sumVars>>

\* a failure that is noted while the fan-out runs on to its end
FetchFail_Drain(r, i) ==
    /\ pc[r] = "fanout"
    /\ i \in inflight[r]
    /\ LET f == Refill(Len(accounts[r]), taken[r], inflight[r] \ {i}) IN
       /\ taken' = [taken EXCEPT ![r] = f.taken]
       /\ calls' = [calls EXCEPT ![r] = Issued(@, taken[r], f.taken)]
       /\ inflight' = [inflight EXCEPT ![r] = f.inflight]
       /\ pc' = [pc EXCEPT ![r] = IF f.inflight = {} THEN "done" ELSE "fanout"]
    /\ data' = [data EXCEPT ![r] = EmptyMap]
    /\ resp' = [resp EXCEPT ![r] = Resp(401, "Failed to GET transactions", EmptyMap)]
    /\ UNCHANGED <<seen, route, hdr, creds, mutex, cache, accounts, sumVars>>

\* a failure answered by sending the same call again
FetchFail_Retry(r, i) ==
    /\ pc[r] = "fanout"
    /\ i \in inflight[r]
    /\ calls' = [calls EXCEPT ![r].fetch = Append(@, i)]
    /\ UNCHANGED <<pc, seen, route, hdr, creds, mutex, cache, accounts, taken, inflight, data, resp, sumVars>>

\* the call at position i fails: `next?` returns, dropping the stream with
\* the calls still in flight and the map collected so far
FetchFail(r, i) ==
    /\ pc[r] = "fanout"
    /\ i \in inflight[r]
    /\ inflight' = [inflight EXCEPT ![r] = {}]
    /\ data' = [data EXCEPT ![r] = EmptyMap]
    /\ pc' = [pc EXCEPT ![r] = "done"]
    /\ resp' = [resp EXCEPT ![r] = Resp(401, "Failed to GET transactions", EmptyMap)]
    /\ UNCHANGED <<seen, route, hdr, creds, mutex, cache, accounts, taken, calls, sumVars>>

\* Ok(data): cache.lock().unwrap().entry(creds.credentials_id).or_default()
WriteLockEntry(r) ==
    /\ pc[r] = "write"
    /\ mutex = 0
    /\ mutex' = r
    /\ cache' = EntryOrDefault(cache, creds[r].credentials_id)
    /\ pc' = [pc EXCEPT ![r] = "wentry"]
    /\ UNCHANGED <<seen, route, hdr, creds, accounts, taken, inflight, data, resp, calls, sumVars>>

\* a write that merges into the entry instead of replacing it
WriteAssign_Merge(r) ==
    /\ pc[r] = "wentry"
    /\ LET k == creds[r].credentials_id
           m == [a \in DOMAIN cache[k] \cup DOMAIN data[r] |->
                    IF a \in DOMAIN data[r] THEN data[r][a] ELSE cache[k][a]] IN
       cache' = Put(cache, k, m)
    /\ mutex' = 0
    /\ resp' = [resp EXCEPT ![r] = Resp(200, "fetched", data[r])]
    /\ pc' = [pc EXCEPT ![r] = "done"]
    /\ UNCHANGED <<seen, route, hdr, creds, accounts, taken, inflight, data, calls, sumVars>>

\* *entry = data.clone(); the temporary guard dies with the statement;
\* Ok(HttpResponse::Ok().json(..))
WriteAssign(r) ==
    /\ pc[r] = "wentry"
    /\ cache' = Put(cache, creds[r].credentials_id, data[r])
    /\ mutex' = 0
    /\ resp' = [resp EXCEPT ![r] = Resp(200, "fetched", data[r])]
    /\ pc' = [pc EXCEPT ![r] = "done"]
    /\ UNCHANGED <<seen, route, hdr, creds, accounts, taken, inflight, data, calls, sumVars>>

Next ==
    \/ \E r \in Requests, rt \in Routes, h \in Headers : FromRequest(r, rt, h)
    \/ \E r \in Requests : ReadLock(r)
    \/ \E r \in Requests : CacheHit(r)
    \/ \E r \in Requests : CacheMiss(r)
    \/ \E r \in Requests, n \in 0..MaxAccounts : ListAccountsOk(r, n)
    \/ \E r \in Requests : ListAccountsFail(r)
    \/ \E r \in Requests, i \in 1..MaxAccounts : FetchOk(r, i)
    \/ \E r \in Requests, i \in 1..MaxAccounts : FetchFail(r, i)
    \/ \E r \in Requests : WriteLockEntry(r)
    \/ \E r \in Requests : WriteAssign(r)

Spec == Init /\ [][Next]_vars

\* One request whose account list is at least as long as the buffer
FanAccounts == BufferLimit..FanMax

NextFan ==
    \/ \E rt \in Routes : FromRequest(1, rt, Hdr(<<"Bearer", "sp", "sp", "u1token">>))
    \/ ReadLock(1)
    \/ CacheMiss(1)
    \/ \E n \in FanAccounts : ListAccountsOk(1, n)
    \/ \E i \in 1..FanMax : FetchOk(1, i)
    \/ \E i \in 1..FanMax : FetchFail(1, i)
    \/ WriteLockEntry(1)
    \/ WriteAssign(1)

SpecFan == Init /\ [][NextFan]_vars

\* One request against a data API that answers every call successfully.
\* The task is polled whenever it has been woken, and every call sent is
\* answered in the end.
LiveStep ==
    \/ ReadLock(1)
    \/ CacheMiss(1)
    \/ \E n \in 0..FanMax : ListAccountsOk(1, n)
    \/ \E i \in 1..FanMax : FetchOk(1, i)
    \/ WriteLockEntry(1)
    \/ WriteAssign(1)

NextLive ==
    \/ \E rt \in Routes : FromRequest(1, rt, Hdr(<<"Bearer", "sp", "sp", "u1token">>))
    \/ LiveStep

SpecLive == Init /\ [][NextLive]_vars /\ WF_vars(LiveStep)

\* ---------------------------------------------------------------- SUMMARY
\* chrono counts 86400 seconds to the day
SecsPerDay == 86400

\* `diff.num_days() < 7`
WindowDays == 7

\* Rust's integer division: the quotient is cut off towards zero
TruncDiv(a, b) == IF a >= 0 THEN a \div b ELSE -((-a) \div b)

\* a day count that rounds a started day up
num_days_Ceil(d) == -((-d) \div SecsPerDay)

\* Duration::num_days: the whole days of d seconds
num_days(d) == TruncDiv(d, SecsPerDay)

\* the f64 hi * 2^53 + lo, for |lo| far below 2^53
F64(h, l) == [hi |-> h, lo |-> l]
Zero == F64(0, 0)

\* the distance between neighbouring f64 values from h * 2^53 upwards:
\* 1 below 2^53, 2 up to 2^54, 4 up to 2^55, ...
RECURSIVE Ulp(_)
Ulp(h) == IF h = 0 THEN 1 ELSE 2 * Ulp(h \div 2)

\* l rounded to the nearest multiple of s, a tie going to the even multiple
RoundTiesEven(l, s) ==
    LET q == l \div s
        r == l - q * s
    IN  IF 2 * r < s THEN q * s
        ELSE IF 2 * r > s THEN (q + 1) * s
        ELSE IF q % 2 = 0 THEN q * s
        ELSE (q + 1) * s

\* the f64 nearest to the real number h * 2^53 + l, for h >= 0
RoundUp(h, l) ==
    IF h = 0 THEN F64(0, l)
    ELSE F64(h, RoundTiesEven(l, Ulp(IF l >= 0 THEN h ELSE h - 1)))

\* the f64 nearest to the real number h * 2^53 + l
f64_round(h, l) ==
    IF h >= 0 THEN RoundUp(h, l)
    ELSE LET m == RoundUp(-h, -l) IN F64(-m.hi, -m.lo)

\* a + b on f64
f64_add(a, b) == f64_round(a.hi + b.hi, a.lo + b.lo)

\* a Transaction, as far as summarize_transactions reads it
Tx(a, ts, cat) == [amount |-> a, timestamp |-> ts, transaction_category |-> cat]

\* the transactions the caches are made of: 2^53, -2^53 and 1.0 spent on
\* food one second after the epoch, 5.0 spent on rent at the epoch
TxSamples ==
    { Tx(F64(1, 0), 1, "food"),
      Tx(F64(-1, 0), 1, "food"),
      Tx(F64(0, 1), 1, "food"),
      Tx(F64(0, 5), 0, "rent") }

TxLists == UNION {[1..n -> TxSamples] : n \in 0..MaxTx}

AccountIds == {"A1", "A2"}

\* UserCache: account_id -> Vec<Transaction>
UserCaches == UNION {[S -> TxLists] : S \in SUBSET AccountIds}

\* the orders in which a HashMap may yield the keys S
Orders(S) ==
    {o \in [1..Cardinality(S) -> S] : \A i, j \in DOMAIN o : o[i] = o[j] => i = j}

\* the clock at the call: the epoch, and one second before and exactly at
\* the moment the window closes on a transaction made one second after it
Starts == {0, WindowDays * SecsPerDay, WindowDays * SecsPerDay + 1}

\* the transactions in the order the nested `for` loops visit them
RECURSIVE Flat(_, _)
Flat(c, o) == IF o = <<>> THEN <<>> ELSE c[Head(o)] \o Flat(c, Tail(o))

\* `*res.entry(category).or_default() += t.amount`
Accumulate(m, t) ==
    LET cat == t.transaction_category
    IN  Put(m, cat, f64_add(IF cat \in DOMAIN m THEN m[cat] ELSE Zero, t.amount))

\* summarize_transactions has just been called and `res` is still empty
InitSum ==
    /\ NoRequests
    /\ clock \in Starts
    /\ started = clock
    /\ spc = "loop"
    /\ ucache \in UserCaches
    /\ order \in Orders(DOMAIN ucache)
    /\ visited = 0
    /\ res = EmptyMap
    /\ passed = <<>>

\* one pass of the inner loop with the entry made before the test
SumStep_ZeroFill ==
    /\ spc = "loop"
    /\ visited < Len(Flat(ucache, order))
    /\ LET t == Flat(ucache, order)[visited + 1]
           diff == clock - t.timestamp
           m == IF t.transaction_category \in DOMAIN res
                THEN res ELSE Put(res, t.transaction_category, Zero)
       IN  /\ passed' = Append(passed, num_days(diff) < WindowDays)
           /\ res' = IF num_days(diff) < WindowDays THEN Accumulate(res, t) ELSE m
    /\ visited' = visited + 1
    /\ UNCHANGED <<reqVars, clock, spc, ucache, order, started>>

\* one pass of the inner loop: read the clock, test the age, accumulate
SumStep ==
    /\ spc = "loop"
    /\ visited < Len(Flat(ucache, order))
    /\ LET t == Flat(ucache, order)[visited + 1]
           diff == clock - t.timestamp
       IN  /\ passed' = Append(passed, num_days(diff) < WindowDays)
           /\ res' = IF num_days(diff) < WindowDays THEN Accumulate(res, t) ELSE res
    /\ visited' = visited + 1
    /\ UNCHANGED <<reqVars, clock, spc, ucache, order, started>>

\* the loops are through and `res` is returned
SumReturn ==
    /\ spc = "loop"
    /\ visited = Len(Flat(ucache, order))
    /\ spc' = "done"
    /\ UNCHANGED <<reqVars, clock, ucache, order, visited, res, started, passed>>

\* a second passes between two readings of the clock
Tick ==
    /\ spc = "loop"
    /\ visited >= 1
    /\ clock - started < MaxTicks
    /\ clock' = clock + 1
    /\ UNCHANGED <<reqVars, spc, ucache, order, visited, res, started, passed>>

NextSum == SumStep \/ SumReturn \/ Tick

SpecSum == InitSum /\ [][NextSum]_vars

\* ---------------------------------------------------------------- CLAIMS
Key(r) == creds[r].credentials_id

\* the request ran get_transactions to its successful end
Fetched(q) == resp[q].kind = "fetched"

\* C1: during get_transactions, whatever the number of accounts, at most
\* 10 per-account transaction calls are in flight at once.
C1_AtMostTenInFlight == \A r \in Requests : Cardinality(inflight[r]) <= 10

\* the queue is full while accounts are still waiting in the stream
C1_Witness ==
    \E r \in Requests :
        /\ pc[r] = "fanout"
        /\ Cardinality(inflight[r]) = 10
        /\ taken[r] < Len(accounts[r])

\* C2: a failed per-account fetch ends the request with an error and
\* leaves AppCache untouched; every entry the cache holds was stored by a
\* request of that identity whose get_transactions succeeded.
C2_FailedFetchWritesNothing ==
    [][ /\ \A r \in Requests :
              pc[r] = "fanout" /\ pc'[r] = "done"
                  => /\ resp'[r].status = 401
                     /\ resp'[r].src = EmptyMap
                     /\ cache' = cache
        /\ \A r \in Requests :
              resp[r].kind = "Failed to GET transactions"
                  => pc'[r] = "done" /\ resp'[r] = resp[r] /\ mutex' # r
        /\ \A k \in DOMAIN cache' :
              \E q \in Requests :
                  /\ Key(q)' = k
                  /\ pc'[q] \in {"wentry", "done"}
                  /\ inflight'[q] = {}
                  /\ taken'[q] = Len(accounts'[q])
                  /\ resp'[q].status # 401 ]_vars

\* a request failed in its fan-out over two accounts and its identity has
\* no entry
C2_Witness ==
    \E r \in Requests :
        /\ resp[r].kind = "Failed to GET transactions"
        /\ Len(accounts[r]) = 2
        /\ Key(r) \notin DOMAIN cache

\* C3: no request holds the AppCache lock while one of its data-API calls
\* is pending; the lock is held only for the lookup and for the write.
C3_NoLockAcrossCalls ==
    \A r \in Requests :
        mutex = r => /\ pc[r] \in {"rlocked", "wentry"}
                     /\ pc[r] \notin {"accounts", "fanout"}
                     /\ inflight[r] = {}

\* one request awaits the data API while another holds the lock
C3_Witness ==
    \E r, q \in Requests :
        /\ pc[r] \in {"accounts", "fanout"}
        /\ mutex = q
        /\ q # r

\* C4: a lookup made when the identity has an entry is answered from that
\* entry, and the request issues no data-API call.
C4_HitServedFromCache ==
    [][ /\ \A r \in Requests :
              (pc[r] = "rlocked" /\ Key(r) \in DOMAIN cache /\ pc'[r] # "rlocked")
                  => /\ pc'[r] = "done"
                     /\ resp'[r] = Resp(200, "cached", cache[Key(r)])
        /\ \A r \in Requests :
              resp'[r].kind = "cached"
                  => accounts'[r] = <<>> /\ taken'[r] = 0 /\ inflight'[r] = {} ]_vars

\* a request was answered from the entry another request had stored
C4_Witness ==
    \E r, q \in Requests :
        /\ r # q
        /\ Key(r) = Key(q)
        /\ Fetched(q)
        /\ resp[r].kind = "cached"
        /\ resp[r].src = resp[q].src
        /\ resp[r].src # EmptyMap

\* C5 as stated: once the entry of an identity has been written, no step
\* of any request writes it again.
C5_WriteOnce ==
    [][ \A r \in Requests :
            Writes(Key(r)) >= 1 => ~(pc[r] = "wentry" /\ pc'[r] = "done") ]_vars

\* C5 amended: only a request whose own lookup came before every write of
\* its identity's entry writes that entry.
C5_OnlyEarlyMissesWrite ==
    \A r \in Requests :
        (pc[r] \in {"accounts", "fanout", "write", "wentry"} \/ Fetched(r))
            => seen[r] = 0

\* two requests of one identity have both written the entry
C5_Witness ==
    \E r, q \in Requests :
        /\ r # q
        /\ Key(r) = Key(q)
        /\ Fetched(r)
        /\ Fetched(q)

\* C6: a write replaces the entry wholesale: after the write the entry is
\* exactly the UserCache the writing request fetched, and no other entry
\* changes.
C6_LastWriterWins ==
    [][ \A r \in Requests :
            pc[r] = "wentry" /\ pc'[r] = "done"
                => /\ DOMAIN cache' = DOMAIN cache
                   /\ cache'[Key(r)] = data[r]
                   /\ resp'[r] = Resp(200, "fetched", data[r])
                   /\ \A k \in DOMAIN cache \ {Key(r)} : cache'[k] = cache[k] ]_vars

\* two requests of one identity both missed and both wrote; the entry is
\* the later one's map and lacks an account only the earlier one had
C6_Witness ==
    \E r, q \in Requests :
        /\ r # q
        /\ Key(r) = Key(q)
        /\ Fetched(r)
        /\ Fetched(q)
        /\ seen[r] = 0
        /\ seen[q] = 0
        /\ cache[Key(q)] = resp[q].src
        /\ DOMAIN resp[r].src \ DOMAIN cache[Key(q)] # {}

\* the complete result of a get_transactions that succeeded for identity k
CompleteResult(k, m) ==
    \E q \in Requests :
        /\ Key(q) = k
        /\ Fetched(q)
        /\ m = resp[q].src
        /\ DOMAIN m = {accounts[q][i] : i \in 1..Len(accounts[q])}

\* C7: a read sees no entry or the complete result of one successful
\* get_transactions, never part of a write in progress.
C7_NoTornRead ==
    \A r \in Requests :
        /\ pc[r] = "rlocked" /\ Key(r) \in DOMAIN cache
               => CompleteResult(Key(r), cache[Key(r)])
        /\ resp[r].kind = "cached" => CompleteResult(Key(r), resp[r].src)

\* a reader inside its critical section sees a complete two-account entry
C7_Witness ==
    \E r \in Requests :
        /\ pc[r] = "rlocked"
        /\ Key(r) \in DOMAIN cache
        /\ Cardinality(DOMAIN cache[Key(r)]) = 2

\* C8 as stated: while no writer is active, a request at its lookup can
\* enter its read critical section, next to readers already inside.
C8_ReadersProceed ==
    \A r \in Requests :
        (pc[r] = "lookup" /\ \A q \in Requests : pc[q] # "wentry")
            => ENABLED ReadLock(r)

\* C8 amended: the guard is a mutual-exclusion lock; at most one request,
\* reader or writer, is inside a critical section, and it is the holder.
C8_MutualExclusion ==
    /\ Cardinality({r \in Requests : pc[r] \in {"rlocked", "wentry"}}) <= 1
    /\ \A r \in Requests : pc[r] \in {"rlocked", "wentry"} => mutex = r

\* a lookup waits behind another reader although no writer is active
C8_Witness ==
    \E r, q \in Requests :
        /\ pc[r] = "rlocked"
        /\ pc[q] = "lookup"
        /\ \A w \in Requests : pc[w] # "wentry"

\* the header is `Bearer`, blanks, then a token
BearerScheme(v) ==
    /\ Len(v) >= 3
    /\ v[1] = "Bearer"
    /\ v[2] = "sp"
    /\ \A i \in 3..Len(v) : v[i] \notin {"Bearer", "nonascii"}
    /\ \E i \in 3..Len(v) : v[i] # "sp"

\* C9: a request whose Authorization header is present but not of the
\* Bearer scheme is rejected with 401 "invalid", and its task survives.
C9_NonBearerRejected ==
    \A r \in Requests :
        (pc[r] # "idle" /\ hdr[r].present /\ ~BearerScheme(hdr[r].value))
            => pc[r] = "rejected" /\ resp[r].status = 401

\* the header is absent, or the token after `Bearer` does not decode
Unauthenticated(h) ==
    \/ ~h.present
    \/ /\ Len(Split(h.value)) >= 2
       /\ ~decode_token(Trim(Split(h.value)[2])).ok

C11_RoundTrip ==
    \A w \in Requests :
        (Fetched(w) /\ Writes(Key(w)) = 1)
            => /\ seen[w] = 0
               /\ Key(w) \in DOMAIN cache
               /\ cache[Key(w)] = resp[w].src
               /\ \A q \in Requests :
                      (resp[q].kind = "cached" /\ Key(q) = Key(w))
                          => resp[q] = Resp(200, "cached", resp[w].src)

\* one request populated the entry with two accounts and a later lookup of
\* the same identity was answered from it
C11_Witness ==
    \E w, q \in Requests :
        /\ Fetched(w)
        /\ Writes(Key(w)) = 1
        /\ Cardinality(DOMAIN resp[w].src) = 2
        /\ Key(q) = Key(w)
        /\ resp[q].kind = "cached"
        /\ seen[q] = 1

\* C16: when GET /accounts fails the request ends at once with that error:
\* it has started no per-account call, starts none afterwards, and leaves
\* AppCache as it was.
C16_ListFailureIsFatal ==
    [][ /\ \A r \in Requests :
              (pc[r] = "accounts" /\ pc'[r] \notin {"accounts", "fanout", "write"})
                  => /\ pc'[r] = "done"
                     /\ resp'[r] = Resp(401, "Failed to GET accounts", EmptyMap)
                     /\ cache' = cache
                     /\ mutex' = mutex
        /\ \A r \in Requests :
              (pc[r] = "accounts" /\ pc'[r] \in {"fanout", "write"})
                  => resp'[r].status # 401
        /\ \A r \in Requests :
              resp[r].kind = "Failed to GET accounts"
                  => /\ pc'[r] = "done"
                     /\ resp'[r] = resp[r]
                     /\ accounts'[r] = <<>>
                     /\ taken'[r] = 0
                     /\ inflight'[r] = {}
                     /\ data'[r] = EmptyMap
                     /\ mutex' # r ]_vars

\* a request ended on the failure of GET /accounts and its identity has no
\* entry
C16_Witness ==
    \E r \in Requests :
        /\ resp[r] = Resp(401, "Failed to GET accounts", EmptyMap)
        /\ pc[r] = "done"
        /\ Key(r) \notin DOMAIN cache

\* the identity the data API serves under a token
Owner(token) == decode_token(token).sub

\* every transaction list of the UserCache m was fetched with a token of k
OwnedBy(m, k) == \A a \in DOMAIN m : Owner(m[a][1]) = k

\* C20: the UserCache stored under credential_id k was fetched with a
\* credential of identity k, and no request is answered with data stored
\* for or fetched with another identity.
C20_CacheIsolation ==
    /\ \A k \in DOMAIN cache : OwnedBy(cache[k], k)
    /\ \A r \in Requests :
           /\ OwnedBy(data[r], Key(r))
           /\ OwnedBy(resp[r].src, Key(r))
           /\ resp[r].kind = "cached"
                  => \E q \in Requests :
                         Key(q) = Key(r) /\ Fetched(q) /\ resp[q].src = resp[r].src

\* two identities each have an entry of their own and a request of each was
\* answered
C20_Witness ==
    \E r, q \in Requests :
        /\ Key(r) # Key(q)
        /\ resp[r].status = 200 /\ resp[r].src # EmptyMap
        /\ resp[q].status = 200 /\ resp[q].src # EmptyMap
        /\ {Key(r), Key(q)} \subseteq DOMAIN cache

\* C17: a request sends GET /accounts at most once and at most one
\* transactions call per account entry of the list it got, and sends
\* nothing more once a call of its own has failed.
C17_NoRetries ==
    [][ \A r \in Requests :
            /\ calls'[r].list <= 1
            /\ Len(calls'[r].fetch) <= Len(accounts'[r])
            /\ \A i, j \in 1..Len(calls'[r].fetch) :
                   i # j => calls'[r].fetch[i] # calls'[r].fetch[j]
            /\ inflight'[r] \subseteq {calls'[r].fetch[i] : i \in 1..Len(calls'[r].fetch)}
            /\ resp[r].status = 401 => calls'[r] = calls[r] /\ inflight'[r] = {} ]_vars

\* a request one of whose transactions calls failed ended with the two
\* calls it had sent, one per account
C17_Witness ==
    \E r \in Requests :
        /\ resp[r].kind = "Failed to GET transactions"
        /\ calls[r] = [list |-> 1, fetch |-> <<1, 2>>]
        /\ Len(accounts[r]) = 2

\* C18: the first failed per-account call the loop takes ends the fan-out:
\* no call is started for the accounts still waiting in the stream, the
\* calls in flight are dropped, and the request answers with that error.
C18_FailFast ==
    [][ \A r \in Requests :
            /\ (pc[r] = "fanout" /\ resp'[r].status = 401)
                   => /\ pc'[r] = "done"
                      /\ resp'[r] = Resp(401, "Failed to GET transactions", EmptyMap)
                      /\ taken'[r] = taken[r]
                      /\ calls'[r] = calls[r]
                      /\ inflight'[r] = {}
                      /\ data'[r] = EmptyMap
            /\ (pc[r] = "fanout" /\ pc'[r] = "fanout")
                   => resp'[r] = NoResp /\ Cardinality(DOMAIN data'[r]) = Cardinality(DOMAIN data[r]) + 1
            /\ resp[r].kind = "Failed to GET transactions"
                   => /\ pc'[r] = "done"
                      /\ taken'[r] = taken[r]
                      /\ inflight'[r] = {} ]_vars

\* the fan-out failed while an account was still waiting in the stream, and
\* no call was ever sent for that account
C18_Witness ==
    \E r \in Requests :
        /\ resp[r].kind = "Failed to GET transactions"
        /\ inflight[r] = {}
        /\ taken[r] = 10
        /\ Len(accounts[r]) > taken[r]
        /\ Len(calls[r].fetch) = 10

\* the map holds exactly the accounts of the list, each with the
\* transactions the data API returned for it
FullResult(r, m) ==
    /\ DOMAIN m = {accounts[r][i] : i \in 1..Len(accounts[r])}
    /\ \A a \in DOMAIN m : m[a] = Transactions(creds[r].access_token, a)

\* C19: when GET /accounts and every transactions call succeed,
\* get_transactions returns in the end, for any number of accounts: every
\* waiting account gets a slot, and the map returned holds exactly the
\* accounts listed, each with the transactions returned for it.
C19_FanOutTerminates ==
    /\ [](\A r \in Requests :
              pc[r] = "write"
                  => /\ FullResult(r, data[r])
                     /\ taken[r] = Len(accounts[r])
                     /\ inflight[r] = {})
    /\ \A r \in Requests :
           (pc[r] = "accounts") ~> (pc[r] = "write" /\ FullResult(r, data[r]))

\* get_transactions returned a map of more accounts than the buffer holds
C19_Witness ==
    \E r \in Requests :
        /\ pc[r] = "write"
        /\ Len(accounts[r]) > 10
        /\ Cardinality(DOMAIN data[r]) = Len(accounts[r])

\* the transactions of the call, in the order it visits them
Visit == Flat(ucache, order)

\* seven days, in seconds
Week == WindowDays * SecsPerDay

\* C12: summarize includes a transaction exactly when fewer than seven
\* whole days lie between its timestamp and now: one made exactly seven
\* days before now is left out, one made a second later is let in.  A
\* transaction left out does not change the result, one let in has its
\* category in it.
C12_StrictSevenDayWindow ==
    [][ visited' = visited + 1 =>
            LET t == Visit[visited']
                inc == passed'[visited']
            IN  /\ inc <=> clock - t.timestamp < Week
                /\ t.timestamp = clock - Week => ~inc
                /\ t.timestamp = clock - Week + 1 => inc
                /\ inc => t.transaction_category \in DOMAIN res'
                /\ ~inc => res' = res ]_vars

\* a call during which no time passed left out a transaction made exactly
\* seven days earlier and let in one made a second after that
C12_Witness ==
    /\ spc = "done"
    /\ clock = started
    /\ \E i, j \in 1..visited :
           /\ Visit[i].timestamp = clock - Week
           /\ ~passed[i]
           /\ Visit[i].transaction_category \notin DOMAIN res
           /\ Visit[j].timestamp = clock - Week + 1
           /\ passed[j]
           /\ Visit[j].transaction_category \in DOMAIN res

\* the f64 sum of the amounts of category c that were let in among the
\* first n transactions, added in the order of the visit
RECURSIVE Total(_, _)
Total(c, n) ==
    IF n = 0 THEN Zero
    ELSE IF passed[n] /\ Visit[n].transaction_category = c
         THEN f64_add(Total(c, n - 1), Visit[n].amount)
         ELSE Total(c, n - 1)

\* C13: the keys of the mapping are exactly the categories of the
\* transactions let in, across all accounts, and the value of a key is the
\* sum of the amounts let in for that category; the mapping returned covers
\* every transaction of the cache, and a category met only on transactions
\* left out has no key.
C13_SumByCategory ==
    /\ spc \in {"loop", "done"} =>
           /\ DOMAIN res = {Visit[i].transaction_category : i \in {j \in 1..visited : passed[j]}}
           /\ \A c \in DOMAIN res : res[c] = Total(c, visited)
    /\ spc = "done" => visited = Len(Visit) /\ Len(passed) = visited

\* two accounts with a transaction on food each gave one key with both
\* amounts, and rent, met only outside the window, has no key
C13_Witness ==
    /\ spc = "done"
    /\ DOMAIN ucache = AccountIds
    /\ \A a \in AccountIds : ucache[a] = <<Tx(F64(0, 1), 1, "food"), Tx(F64(0, 5), 0, "rent")>>
    /\ res = Put(EmptyMap, "food", F64(0, 2))

\* summarize_transactions against a clock that stands still at `now`
RECURSIVE SummarizeAt(_, _, _)
SummarizeAt(txs, n, now) ==
    IF n = 0 THEN EmptyMap
    ELSE LET m == SummarizeAt(txs, n - 1, now)
         IN  IF num_days(now - txs[n].timestamp) < WindowDays
             THEN Accumulate(m, txs[n]) ELSE m

\* the caches that hold the transactions of c with each account's list in
\* some other order
Shuffles(c) ==
    {d \in [DOMAIN c -> TxLists] :
        \A a \in DOMAIN c :
            /\ Len(d[a]) = Len(c[a])
            /\ \E f \in Orders(DOMAIN c[a]) : \A i \in DOMAIN f : d[a][i] = c[a][f[i]]}

\* C14: summarize is order-independent: with the accounts yielded in any
\* other order, or the transactions of an account listed in any other
\* order, the mapping is the same.
C14_OrderIndependent ==
    (spc = "done" /\ clock = started) =>
        \A o \in Orders(DOMAIN ucache) : \A d \in Shuffles(ucache) :
            SummarizeAt(Flat(d, o), Len(Flat(d, o)), started) = res

\* C15: within one call every transaction is judged against the same
\* instant, so the mapping depends only on the cache and the clock at the
\* call, however much time passes while the loops run.
C15_JudgedAgainstOneInstant ==
    spc = "done" => res = SummarizeAt(Visit, Len(Visit), started)

====
